---- MODULE Spec2Model ----
(***************************************************************************)
(* Model of the virtual-surround crate: construction of the raw filter     *)
(* from a HRIR recording (lib.rs RawVirtualSurroundFilter::new), the raw   *)
(* per-window transform (lib.rs / rustfft.rs) and the streaming filter     *)
(* (lib.rs VirtualSurroundFilter::transform).                              *)
(* The JACK host of jack-vsf/src/main.rs drives the raw filter from its    *)
(* process callback.                                                       *)
(*                                                                         *)
(* Arrays are sequences; the source's 0-based index i is element i + 1.    *)
(* Audio samples are exact rationals: an input sample is an integer count  *)
(* of InUnit-ths, an accumulated output sample is an integer count of      *)
(* (1 / filter.one)-ths, so that 1.0f32 is the integer filter.one.         *)
(* The forward FFT, spectral product, inverse FFT and 1/length scaling of  *)
(* process_channel are modelled by what they compute together: the         *)
(* circular convolution of the window with the stored impulse.             *)
(***************************************************************************)
EXTENDS Integers, Sequences, FiniteSets, TLC

\* ------------------------------------------------------------------ bounds
ScaledBlock == 2         \* BLOCK_SIZE of the scaled-down build explored by Spec
ScaledStart == 1         \* first exponent of the planning loop in that build
MaxHrirSamples == 2      \* HRIR frames of the recordings explored by Spec
MaxRecChannels == 2      \* channels of the short recordings
MaxSupplied == 10        \* input frames supplied to one streaming filter
MaxBlocks == 2           \* output blocks logged for one streaming filter
MaxPlanSamples == 1600   \* HRIR frames explored by SpecPlan
MaxRawCalls == 1         \* raw transform calls of one run
InUnit == 4              \* resolution of input samples: 1.0 is InUnit
JackBlockExp == 2        \* BLOCK_SIZE of the build explored by SpecJack is 2^JackBlockExp
MaxCallbacks == 12       \* process callbacks of one JACK client
MaxSizeChanges == 1      \* accepted buffer-size changes of one JACK client

\* ------------------------------------------------------- program constants
MAX_CHANNELS == 24
BLOCK_SIZE == 512
StartExp == 5
ScalingNum == 5          \* scaling_factor = 2.5 = ScalingNum / ScalingDen
ScalingDen == 2
None == -1               \* Option::None of an index

\* --------------------------------------------------------------- positions
ChannelMask ==
    {"DirectOut", "FrontLeft", "FrontRight", "FrontCenter", "LowFrequency",
     "BackLeft", "BackRight", "FrontCenterLeft", "FrontCenterRight",
     "BackCenter", "SideLeft", "SideRight", "TopCenter", "TopFrontLeft",
     "TopFrontCenter", "TopFrontRight", "TopBackLeft", "TopBackCenter",
     "TopBackRight"}

mirror_channel(channel) ==
    CASE channel = "FrontLeft" -> "FrontRight"
      [] channel = "FrontRight" -> "FrontLeft"
      [] channel = "BackLeft" -> "BackRight"
      [] channel = "BackRight" -> "BackLeft"
      [] channel = "FrontCenterLeft" -> "FrontCenterRight"
      [] channel = "FrontCenterRight" -> "FrontCenterLeft"
      [] channel = "SideLeft" -> "SideRight"
      [] channel = "SideRight" -> "SideLeft"
      [] channel = "TopFrontLeft" -> "TopFrontRight"
      [] channel = "TopFrontRight" -> "TopFrontLeft"
      [] channel = "TopBackLeft" -> "TopBackRight"
      [] channel = "TopBackRight" -> "TopBackLeft"
      [] OTHER -> channel

\* ------------------------------------------------------------- sample format
CommonFormat == {"IeeeFloatPCM", "IntegerPCM"}

\* TryFrom<WaveFmt> for SampleFormat
SampleFormatTryFrom(fmt) ==
    IF fmt.common_format = "IeeeFloatPCM" /\ fmt.bits_per_sample = 32
    THEN [ok |-> TRUE, format |-> "F32"]
    ELSE [ok |-> FALSE, format |-> "none"]

\* -------------------------------------------------------------- ChannelMap
\* ChannelMap::from_iter: at most MAX_CHANNELS positions, the rest of the
\* fixed array stays DirectOut.
ChannelMapFromIter(positions) ==
    IF Len(positions) > MAX_CHANNELS
    THEN [ok |-> FALSE, channels |-> 0,
          map |-> [i \in 1..MAX_CHANNELS |-> "DirectOut"]]
    ELSE [ok |-> TRUE, channels |-> Len(positions),
          map |-> [i \in 1..MAX_CHANNELS |->
                     IF i <= Len(positions) THEN positions[i] ELSE "DirectOut"]]

\* a scan that keeps the last index holding the position
find_last(cm, channel) ==
    LET hits == {i \in 0..(cm.channels - 1) : cm.map[i + 1] = channel}
    IN  IF hits = {} THEN None
        ELSE CHOOSE i \in hits : \A k \in hits : i >= k

\* ChannelMap::find: first index (0-based) holding the position, or None
find(cm, channel) ==
    LET hits == {i \in 0..(cm.channels - 1) : cm.map[i + 1] = channel}
    IN  IF hits = {} THEN None
        ELSE CHOOSE i \in hits : \A k \in hits : i <= k

find_mirror(cm, channel) == find(cm, mirror_channel(channel))

\* --------------------------------------------------------------- recording
\* A decoded recording: its channel positions, its frame count, its wave
\* format and its sample rate.  The sample of frame j (0-based) on channel c
\* (0-based) is HrirSample(rec, j, c), an integer; every frame has a
\* non-zero sample.
HrirSample(rec, j, c) ==
    IF rec.shape = "alt"
    THEN (IF (j + c) % 2 = 0 THEN 3 ELSE -2)
    ELSE j + c + 1

Abs(x) == IF x < 0 THEN -x ELSE x

RECURSIVE SumAbs(_, _, _)
SumAbs(rec, j, c) ==
    IF c = 0 THEN 0
    ELSE Abs(HrirSample(rec, j, c - 1)) + SumAbs(rec, j, c - 1)

\* normalize_hrir: hrir_max is the largest per-frame sum of absolute values;
\* every sample is divided by hrir_max * 2.5.  Returns hrir_max; the
\* normalised sample is ScalingDen * raw / (ScalingNum * hrir_max).
HrirMax(rec, samples, channels) ==
    LET sums == {SumAbs(rec, j, channels) : j \in 0..(samples - 1)}
    IN  IF sums = {} THEN 0
        ELSE CHOOSE m \in sums : \A k \in sums : m >= k

\* ---------------------------------------------------------------- planning
Pow2(e) == 2 ^ e

PlanGoalReachedStrict(m, goal) == m > goal

PlanGoalReached(m, goal) == m >= goal

\* lib.rs 206-216: i = 5; m = 0; while m < goal { i += 1; m = 2^i }
\* (`start` is the 5: StartExp in the crate, ScaledStart in the scaled build)
RECURSIVE PlanLoop(_, _, _)
PlanLoop(i, m, goal) ==
    IF PlanGoalReached(m, goal) THEN m
    ELSE PlanLoop(i + 1, Pow2(i + 1), goal)

PlanFftLen(samples, block, start) == PlanLoop(start, 0, samples + block + 1)

\* ------------------------------------------------------------ FFT backend
\* RustFFTLogic::new: the plan length; the impulse slots are filled by init_ir.
\* realfft's process_with_scratch fails when a buffer has the wrong length.
FFTLogicNew(channels, length, clobbers) ==
    [length |-> length, clobbers |-> clobbers]

\* RustFFTLogic::init_ir: forward transform of an impulse buffer into a slot
InitIrOk(logic, impulse_len) == impulse_len = logic.length

\* ------------------------------------------------------------ construction
NoFilter ==
    [channel_map |-> ChannelMapFromIter(<<>>), rate |-> 0, format |-> "none",
     fft_logic |-> FFTLogicNew(0, 0, FALSE), fft_len |-> 0, block |-> 0,
     ir |-> <<>>, hrir_samples |-> 0, hrir_max |-> 0, shape |-> "none"]

Failure(kind, error, position, fmt) ==
    [kind |-> kind, error |-> error, position |-> position,
     encoding |-> fmt.common_format, bits |-> fmt.bits_per_sample,
     filter |-> NoFilter]

NoFmt == [common_format |-> "none", bits_per_sample |-> 0]

NotConstructed == Failure("None", "", "none", NoFmt)

\* lib.rs 185-202: the external converter returns data for about
\* samples * target / source frames; samples = data.len() / channels
ResampledSamples(rec, sample_rate, resample) ==
    IF resample /\ sample_rate # None /\ sample_rate # rec.sample_rate
    THEN (rec.frames_read * sample_rate) \div rec.sample_rate
    ELSE rec.frames_read

CurrentRate(rec, sample_rate, resample) ==
    IF resample /\ sample_rate # None /\ sample_rate # rec.sample_rate
    THEN sample_rate
    ELSE rec.sample_rate

\* lib.rs 227-237: channels_right[i] = find_mirror(map[i]) or the context error
Unmirrored(cm) ==
    {i \in 0..(cm.channels - 1) : find_mirror(cm, cm.map[i + 1]) = None}

FirstOf(S) == CHOOSE i \in S : \A k \in S : i <= k

ImpulseIndexSame(cm, i, ear) ==
    IF ear = 0 THEN i ELSE find(cm, cm.map[i + 1])

\* lib.rs 241-256: slot i*2 + ear is built from channels_left[i] (ear 0) or
\* channels_right[i] (ear 1)
ImpulseIndex(cm, i, ear) ==
    IF ear = 0 THEN i ELSE find_mirror(cm, cm.map[i + 1])

BuildIr(cm) ==
    [slot \in 1..(2 * cm.channels) |->
        ImpulseIndex(cm, (slot - 1) \div 2, (slot - 1) % 2)]

\* RawVirtualSurroundFilter::new, in the order of the code
RawNew(rec, sample_rate, resample, clobbers, block, start) ==
    IF ~resample /\ sample_rate # None
    THEN Failure("Panic", "compiled without resampling support", "none", rec.fmt)
    ELSE IF Len(rec.positions) > MAX_CHANNELS
    THEN Failure("Err", "TooManyChannels", "none", rec.fmt)
    ELSE
      LET channels == Len(rec.positions)
          samples == ResampledSamples(rec, sample_rate, resample)
          hrir_max == HrirMax(rec, samples, channels)
          fft_len == PlanFftLen(samples, block, start)
          cm == ChannelMapFromIter(rec.positions)
          fft_logic == FFTLogicNew(channels, fft_len, clobbers)
          format == SampleFormatTryFrom(rec.fmt)
      IN  IF ~cm.ok
          THEN Failure("Err", "TooManyChannels", "none", rec.fmt)
          ELSE IF Unmirrored(cm) # {}
          THEN Failure("Err", "AsymmetricHRIR",
                       cm.map[FirstOf(Unmirrored(cm)) + 1], rec.fmt)
          ELSE IF ~InitIrOk(fft_logic, fft_len)
          THEN Failure("Err", "Failed to process IR", "none", rec.fmt)
          ELSE IF ~format.ok
          THEN Failure("Err", "UnsupportedFormat", "none", rec.fmt)
          ELSE [kind |-> "Ok", error |-> "", position |-> "none",
                encoding |-> rec.fmt.common_format,
                bits |-> rec.fmt.bits_per_sample,
                filter |->
                  [channel_map |-> cm,
                   rate |-> CurrentRate(rec, sample_rate, resample),
                   format |-> format.format,
                   fft_logic |-> fft_logic,
                   fft_len |-> fft_len,
                   block |-> block,
                   ir |-> BuildIr(cm),
                   hrir_samples |-> samples,
                   hrir_max |-> hrir_max,
                   shape |-> rec.shape]]

samples_required(f) == f.fft_len

block_size(f) == f.block

sample_latency(f) == f.fft_len - f.block

channels(f) == f.channel_map.channels

\* an array with its elements evaluated: the same sequence
Array(a) == SubSeq(a, 1, Len(a))

\* the element of a one-element set; The({e(x) : x \in {d}}) is
\* LET x == d IN e(x) with d evaluated once
The(S) == CHOOSE x \in S : TRUE

\* ----------------------------------------------------------------- samples
\* A sample is <<frame, channel>>: the sample of input frame `frame` (1, 2,
\* ... in stream order) on channel `channel` (0-based).  Zero is the 0f32 of
\* a fresh buffer, Garbage what a buffer used as FFT scratch space holds.
Zero == <<0, 0>>

Garbage == <<-1, 0>>

\* The value of a sample in InUnit-ths: the stream runs through silence,
\* half scale, full scale and ten times full scale of both signs.
Val(sample) ==
    LET frame == sample[1]
        c == sample[2]
        base == CASE frame % 5 = 1 -> InUnit \div 2
                  [] frame % 5 = 2 -> -InUnit
                  [] frame % 5 = 3 -> 10 * InUnit
                  [] frame % 5 = 4 -> -10 * InUnit
                  [] OTHER -> 0
    IN  IF sample = Zero THEN 0
        ELSE IF sample = Garbage THEN 3 * InUnit
        ELSE base * (c + 1)

\* 1.0f32 in the units of the accumulators of filter f
One(f) == ScalingNum * (IF f.hrir_max = 0 THEN 1 ELSE f.hrir_max) * InUnit

\* the interleaved input of `count` frames following frame `first`
Interleaved(first, count, ch) ==
    Array([k \in 1..(count * ch) |->
             <<first + ((k - 1) \div ch) + 1, (k - 1) % ch>>])

\* ------------------------------------------------------- process_channel
RECURSIVE ConvSum(_, _, _, _, _)
ConvSum(f, slot, window, p, j) ==
    IF j = 0 THEN 0
    ELSE HrirSample(f, j - 1, f.ir[slot + 1])
           * Val(window[((p - (j - 1)) % Len(window)) + 1])
         + ConvSum(f, slot, window, p, j - 1)

\* rev_space[p] * length_if: sample p of the circular convolution of the
\* window with the normalised impulse of the slot, in One(f)-ths
ConvAt(f, slot, window, p) ==
    ScalingDen * ConvSum(f, slot, window, p, f.hrir_samples)

\* rustfft.rs 107-109: out_space[s] += rev_space[(length - BLOCK_SIZE) + s]
Accumulate(f, channel, ear, window, out_space) ==
    Array([s \in 1..Len(out_space) |->
        IF s <= f.block
        THEN out_space[s]
             + ConvAt(f, channel * 2 + ear, window,
                      (f.fft_logic.length - f.block) + (s - 1))
        ELSE out_space[s]])

\* the forward transform may use its input as scratch space
AfterForward(f, samples) ==
    IF f.fft_logic.clobbers THEN Array([p \in 1..Len(samples) |-> Garbage])
    ELSE samples

\* RustFFTLogic::process_channel: the forward transform fails on a window
\* of the wrong length, before anything is written
ProcessChannel(f, channel, samples, left_output, right_output) ==
    IF Len(samples) # f.fft_logic.length
    THEN [ok |-> FALSE, samples |-> samples,
          left |-> left_output, right |-> right_output]
    ELSE [ok |-> TRUE, samples |-> AfterForward(f, samples),
          left |-> Accumulate(f, channel, 0, samples, left_output),
          right |-> Accumulate(f, channel, 1, samples, right_output)]

\* ---------------------------------------------- RawVirtualSurroundFilter
\* RawVirtualSurroundFilter::transform: process_channel for every channel in
\* order; `?` returns at the first failure
RECURSIVE RawTransformFrom(_, _, _, _, _)
RawTransformFrom(f, channel, input, left, right) ==
    IF channel >= channels(f)
    THEN [ok |-> TRUE, input |-> input, left |-> left, right |-> right]
    ELSE The({IF ~r.ok
              THEN [ok |-> FALSE, input |-> input, left |-> left, right |-> right]
              ELSE RawTransformFrom(f, channel + 1,
                                    [input EXCEPT ![channel + 1] = r.samples],
                                    r.left, r.right) :
              r \in {ProcessChannel(f, channel, input[channel + 1], left, right)}})

RawTransform(f, input, left, right) == RawTransformFrom(f, 0, input, left, right)

\* -------------------------------------------------- VirtualSurroundFilter
Zeros(n) == Array([i \in 1..n |-> 0])

\* VirtualSurroundFilter::new around a constructed raw filter
StreamNew(inner) ==
    [inner |-> inner,
     available_data |-> 0,
     left_out_space |-> Zeros(block_size(inner) * 4),
     right_out_space |-> Zeros(block_size(inner) * 4),
     in_space |-> Array([c \in 1..MAX_CHANNELS |->
                     IF c <= channels(inner)
                     THEN Array([p \in 1..samples_required(inner) |-> Zero])
                     ELSE <<>>])]

NoStream == StreamNew(NoFilter)

\* slice.copy_within(from.., 0)
CopyWithin(buf, from) ==
    SubSeq(buf, from + 1, Len(buf)) \o SubSeq(buf, Len(buf) - from + 1, Len(buf))

\* lib.rs 373: the window overflows
Overflows(available, sample_count, required) ==
    available + sample_count > required

OverflowCursorShort(required, sample_count) == required - sample_count - 1

\* lib.rs 374: the fill cursor after making room
OverflowCursor(required, sample_count) == required - sample_count

FillPhaseEarly(available, required) == available < required \div 2

\* lib.rs 392: the window is not full yet
FillPhase(available, required) == available < required

ClampLow(sample, one) ==
    IF sample < -one THEN -one ELSE sample

\* lib.rs 413-419, 423-429
Clamp(sample, one) ==
    LET high == IF sample > one THEN one ELSE sample
    IN  IF high < -one THEN -one ELSE high

\* lib.rs 411-431: block frames of interleaved, clamped stereo
WriteOutput(f, left, right, output) ==
    Array([k \in 1..Len(output) |->
        IF k <= 2 * block_size(f)
        THEN IF (k - 1) % 2 = 0
             THEN Clamp(left[((k - 1) \div 2) + 1], One(f))
             ELSE Clamp(right[((k - 1) \div 2) + 1], One(f))
        ELSE output[k]])

\* lib.rs 380-388: make room, then append the de-interleaved input
AppendInput(v, input, sample_count, move_data, available) ==
    Array([c \in 1..MAX_CHANNELS |->
        IF c > channels(v.inner) THEN v.in_space[c]
        ELSE The({SubSeq(moved, 1, available)
                    \o [s \in 1..sample_count |->
                          input[(s - 1) * channels(v.inner) + (c - 1) + 1]]
                    \o SubSeq(moved, available + sample_count + 1, Len(moved)) :
                  moved \in {IF move_data > 0
                             THEN CopyWithin(v.in_space[c], move_data)
                             ELSE v.in_space[c]}})])

\* lib.rs 396-433: zero the accumulators, transform, clamp and write
Produce(v, appended, available, output) ==
    The({IF ~raw.ok
         THEN [kind |-> "Err", output |-> output, wrote |-> 0,
               appended |-> appended,
               vsf |-> [v EXCEPT !.in_space = raw.input,
                                 !.available_data = available,
                                 !.left_out_space = raw.left,
                                 !.right_out_space = raw.right]]
         ELSE [kind |-> "Ok",
               output |-> WriteOutput(v.inner, raw.left, raw.right, output),
               wrote |-> block_size(v.inner),
               appended |-> appended,
               vsf |-> [v EXCEPT !.in_space = raw.input,
                                 !.available_data = available,
                                 !.left_out_space = raw.left,
                                 !.right_out_space = raw.right]] :
         raw \in {RawTransform(v.inner, appended,
                               Zeros(Len(v.left_out_space)),
                               Zeros(Len(v.right_out_space)))}})

\* VirtualSurroundFilter::transform
StreamTransform(v, input, output) ==
    LET required == samples_required(v.inner)
        sample_count == Len(input) \div channels(v.inner)
        over == Overflows(v.available_data, sample_count, required)
        move_data == IF over THEN sample_count ELSE 0
        available == IF over THEN OverflowCursor(required, sample_count)
                     ELSE v.available_data
    IN  IF sample_count > required
        THEN [kind |-> "Panic", vsf |-> v, output |-> output, wrote |-> 0,
              appended |-> v.in_space]
        ELSE The({IF FillPhase(available + sample_count, required)
                  THEN [kind |-> "Ok", output |-> output, wrote |-> 0,
                        appended |-> appended,
                        vsf |-> [v EXCEPT !.in_space = appended,
                                          !.available_data = available + sample_count]]
                  ELSE Produce(v, appended, available + sample_count, output) :
                  appended \in {AppendInput(v, input, sample_count, move_data,
                                            available)}})

\* `count` calls of one frame each, following frame `first`
RECURSIVE FeedSingly(_, _, _, _, _)
FeedSingly(v, output, log, first, count) ==
    IF count = 0 THEN [vsf |-> v, output |-> output, log |-> log]
    ELSE The({FeedSingly(r.vsf, r.output,
                         IF r.wrote > 0 THEN Append(log, r.output) ELSE log,
                         first + 1, count - 1) :
              r \in {StreamTransform(v, Interleaved(first, 1, channels(v.inner)),
                                     output)}})

\* ------------------------------------------------------------- JACK host
\* port.as_slice(process_scope) of input channel c: the next b frames
JackPort(fed, b, c) == Array([p \in 1..b |-> <<fed + p, c>>])

\* buf[from..from + src.len()].copy_from_slice(src)
CopyFromSlice(buf, from, src) ==
    SubSeq(buf, 1, from) \o src \o SubSeq(buf, from + Len(src) + 1, Len(buf))

\* a host that always hands out the head of the cached block
CachedSliceHead(space, output_buffer, buffer_size) ==
    SubSeq(space, 1, buffer_size)

\* main.rs 100-101: output_space[e][output_buffer..output_buffer + buffer_size]
CachedSlice(space, output_buffer, buffer_size) ==
    SubSeq(space, output_buffer + 1, output_buffer + buffer_size)

\* main.rs 42-71: the Filter handed to the client.  ports is what the last
\* callback wrote to the two output ports (<<>>: it wrote nothing); k is
\* the number of callbacks since the last transform at this buffer size
\* (None before the first), last_block the outputs of that transform.
JackNew(f) ==
    [started |-> TRUE, quit |-> FALSE, panicked |-> FALSE,
     input_space |-> Array([c \in 1..channels(f) |->
                        Array([p \in 1..samples_required(f) |-> Zero])]),
     input_offset |-> 0,
     buffer_size |-> block_size(f),
     output_buffer |-> 0,
     output_space |-> <<Zeros(block_size(f)), Zeros(block_size(f))>>,
     has_buffer |-> FALSE,
     ports |-> <<>>, fed |-> 0, callbacks |-> 0, changes |-> 0,
     transformed |-> FALSE, k |-> None, prev_k |-> None, last_block |-> <<>>]

NoJack ==
    [started |-> FALSE, quit |-> FALSE, panicked |-> FALSE,
     input_space |-> <<>>, input_offset |-> 0, buffer_size |-> 0,
     output_buffer |-> 0, output_space |-> <<>>, has_buffer |-> FALSE,
     ports |-> <<>>, fed |-> 0, callbacks |-> 0, changes |-> 0,
     transformed |-> FALSE, k |-> None, prev_k |-> None, last_block |-> <<>>]

\* main.rs 172: the requested size is refused
SizeRefused(f, size) == block_size(f) % size # 0 \/ size > block_size(f)

\* Filter::buffer_size
JackBufferSize(f, j, size) ==
    IF size = j.buffer_size THEN j
    ELSE IF SizeRefused(f, size) THEN [j EXCEPT !.quit = TRUE]
    ELSE [j EXCEPT !.buffer_size = size, !.input_offset = 0,
                   !.has_buffer = FALSE, !.changes = @ + 1, !.k = None]

\* main.rs 94-117: the window is not full yet; hand out the next slice of
\* the cached block, if there is one
JackStage(f, j, space) ==
    LET b == j.buffer_size
        cached == j.has_buffer /\ j.output_buffer < block_size(f)
    IN  IF cached /\ j.output_buffer + b > block_size(f)
        THEN [j EXCEPT !.panicked = TRUE, !.quit = TRUE]
        ELSE [j EXCEPT
                !.input_space = space,
                !.input_offset = @ + b,
                !.ports = IF cached
                          THEN <<CachedSlice(j.output_space[1], j.output_buffer, b),
                                 CachedSlice(j.output_space[2], j.output_buffer, b)>>
                          ELSE <<>>,
                !.output_buffer = IF cached THEN @ + b ELSE @,
                !.has_buffer = IF cached /\ j.output_buffer + b >= block_size(f)
                               THEN FALSE ELSE @,
                !.fed = @ + b, !.callbacks = @ + 1, !.transformed = FALSE,
                !.prev_k = j.k, !.k = IF j.k = None THEN None ELSE j.k + 1]

\* main.rs 119-164: zero the outputs, transform (its error is dropped),
\* hand out the head of the block, slide the windows by block_size
JackTransform(f, j, space) ==
    LET b == j.buffer_size
        direct == b = block_size(f)
    IN  The({[j EXCEPT
                !.input_space = Array([c \in 1..channels(f) |->
                                   CopyWithin(r.input[c], block_size(f))]),
                !.input_offset = samples_required(f) - block_size(f),
                !.ports = IF direct THEN <<r.left, r.right>>
                          ELSE <<SubSeq(r.left, 1, b), SubSeq(r.right, 1, b)>>,
                !.output_space = IF direct THEN @ ELSE <<r.left, r.right>>,
                !.output_buffer = IF direct THEN @ ELSE b,
                !.has_buffer = IF direct THEN @ ELSE TRUE,
                !.fed = @ + b, !.callbacks = @ + 1, !.transformed = TRUE,
                !.prev_k = j.k, !.k = 0, !.last_block = <<r.left, r.right>>] :
             r \in {RawTransform(f, space, Zeros(block_size(f)),
                                 Zeros(block_size(f)))}})

\* Filter::process with n_frames frames in the ports
JackProcess(f, j0, n_frames) ==
    The({IF j.quit THEN j
         ELSE IF j.input_offset + j.buffer_size > samples_required(f)
         THEN [j EXCEPT !.panicked = TRUE, !.quit = TRUE]
         ELSE The({IF j.input_offset < samples_required(f) - j.buffer_size
                   THEN JackStage(f, j, space)
                   ELSE JackTransform(f, j, space) :
                   space \in {Array([c \in 1..channels(f) |->
                                CopyFromSlice(j.input_space[c], j.input_offset,
                                              JackPort(j.fed, j.buffer_size, c - 1))])}}) :
         j \in {JackBufferSize(f, j0, n_frames)}})

\* ------------------------------------------------------------------- state
VARIABLES
    rec,          \* the decoded HRIR recording handed to the constructor
    sample_rate,  \* the requested target rate, or None
    resample,     \* the build has the "resample" feature
    clobbers,     \* the build's forward FFT uses its input as scratch space
    block,        \* the build's BLOCK_SIZE
    start,        \* the build's first planning exponent (i = 5)
    ctor,         \* result of RawVirtualSurroundFilter::new
    vsf,          \* the streaming filter, once created
    streaming,    \* the streaming filter has been created
    output,       \* the caller's interleaved output buffer
    supplied,     \* input frames supplied to the streaming filter so far
    call,         \* the last streaming call: its input and what it did
    out_log,      \* the output blocks written so far, in order
    ref,          \* a second streaming filter, fed the same stream singly
    ref_log,      \* the output blocks the second filter wrote
    raw_left,     \* the raw caller's output buffers
    raw_right,
    raw_call,     \* the last raw call: buffers at entry and its result
    raw_calls,    \* raw calls made
    jack          \* the JACK client's Filter and what its last callback did

vars == <<rec, sample_rate, resample, clobbers, block, start, ctor, vsf, streaming,
          output, supplied, call, out_log, ref, ref_log, raw_left, raw_right,
          raw_call, raw_calls, jack>>

\* -------------------------------------------------------------- the inputs
RecPositions == {"FrontLeft", "FrontRight", "FrontCenter"}

ShortLayouts ==
    UNION {[1..n -> RecPositions] : n \in 1..MaxRecChannels}

\* a layout of MAX_CHANNELS + 1 channels: the named ones, then DirectOut
Padded(layout) ==
    [i \in 1..(MAX_CHANNELS + 1) |->
        IF i <= Len(layout) THEN layout[i] ELSE "DirectOut"]

Layouts == ShortLayouts \cup {Padded(l) : l \in ShortLayouts}

Formats ==
    {[common_format |-> "IeeeFloatPCM", bits_per_sample |-> 32],
     [common_format |-> "IeeeFloatPCM", bits_per_sample |-> 64],
     [common_format |-> "IntegerPCM", bits_per_sample |-> 32]}

SourceRate == 44100

\* what read_float_frame delivers: every frame of a 32-bit float recording;
\* for another encoding the decoder's answer is not fixed by this code
FramesRead(fmt, frames) ==
    IF SampleFormatTryFrom(fmt).ok THEN {frames} ELSE {0, frames}

Recordings(maxframes, layouts, formats) ==
    UNION {{[positions |-> l, fmt |-> fm, sample_rate |-> SourceRate,
             frames_read |-> n, shape |-> "alt"] : n \in FramesRead(fm, frames)} :
           l \in layouts, fm \in formats, frames \in 0..maxframes}

NoCall ==
    [count |-> 0, wrote |-> 0, kind |-> "None", pre |-> NoStream,
     pre_supplied |-> 0, pre_output |-> <<>>, input |-> <<>>,
     appended |-> <<>>]

NoRawCall ==
    [kind |-> "None", short |-> None, left |-> <<>>, right |-> <<>>,
     input |-> <<>>, after |-> <<>>]

InitWith(recordings, b, st, builds) ==
    /\ rec \in recordings
    /\ sample_rate \in {None, 2 * SourceRate}
    /\ resample \in builds
    /\ clobbers \in builds
    /\ block = b
    /\ start = st
    /\ ctor = NotConstructed
    /\ vsf = NoStream
    /\ streaming = FALSE
    /\ output = <<>>
    /\ supplied = 0
    /\ call = NoCall
    /\ out_log = <<>>
    /\ ref = NoStream
    /\ ref_log = <<>>
    /\ raw_left = <<>>
    /\ raw_right = <<>>
    /\ raw_call = NoRawCall
    /\ raw_calls = 0
    /\ jack = NoJack

Init == InitWith(Recordings(MaxHrirSamples, Layouts, Formats), ScaledBlock, ScaledStart, BOOLEAN)

\* ------------------------------------------------------------------ actions
\* RawVirtualSurroundFilter::new(reader, sample_rate)
Construct ==
    /\ ctor.kind = "None"
    /\ ctor' = RawNew(rec, sample_rate, resample, clobbers, block, start)
    /\ raw_left' = Zeros(block)
    /\ raw_right' = Zeros(block)
    /\ UNCHANGED <<rec, sample_rate, resample, clobbers, block, start, vsf, streaming,
                   output, supplied, call, out_log, ref, ref_log, raw_call,
                   raw_calls, jack>>

\* VirtualSurroundFilter::new: the buffers around the raw filter
NewStreaming ==
    /\ ctor.kind = "Ok"
    /\ ~streaming
    /\ raw_calls = 0
    /\ streaming' = TRUE
    /\ vsf' = StreamNew(ctor.filter)
    /\ ref' = StreamNew(ctor.filter)
    /\ output' = Zeros(2 * block)
    /\ UNCHANGED <<rec, sample_rate, resample, clobbers, block, start, ctor, supplied,
                   call, out_log, ref_log, raw_left, raw_right, raw_call,
                   raw_calls, jack>>

ChunkSizes(f) ==
    {0, 1, block_size(f), sample_latency(f), samples_required(f),
     samples_required(f) + 1}

\* one call of VirtualSurroundFilter::transform with `count` frames
StreamCall(count) ==
    /\ streaming
    /\ call.kind # "Panic"
    /\ supplied + count <= MaxSupplied
    /\ Len(out_log) < MaxBlocks
    /\ \E input \in {Interleaved(supplied, count, channels(vsf.inner))} :
       \E r \in {StreamTransform(vsf, input, output)} :
       \E fed \in {FeedSingly(ref, output, ref_log, supplied, count)} :
           /\ vsf' = r.vsf
           /\ output' = r.output
           /\ call' = [count |-> count, wrote |-> r.wrote, kind |-> r.kind,
                       pre |-> vsf, pre_supplied |-> supplied,
                       pre_output |-> output, input |-> input,
                       appended |-> r.appended]
           /\ out_log' = IF r.wrote > 0 THEN Append(out_log, r.output) ELSE out_log
           /\ supplied' = supplied + count
           /\ ref' = fed.vsf
           /\ ref_log' = fed.log
    /\ UNCHANGED <<rec, sample_rate, resample, clobbers, block, start, ctor, streaming,
                   raw_left, raw_right, raw_call, raw_calls, jack>>

\* the windows a raw caller passes: fft_len frames per channel, oldest first;
\* the window of channel `short` (if any) is one frame short
RawInput(f, first, short) ==
    [c \in 1..channels(f) |->
        [p \in 1..(IF c - 1 = short THEN samples_required(f) - 1
                   ELSE samples_required(f)) |-> <<first + p, c - 1>>]]

\* one call of RawVirtualSurroundFilter::transform; the caller may have
\* zeroed its output buffers first
RawCall(short, zero) ==
    /\ ctor.kind = "Ok"
    /\ ~streaming
    /\ raw_calls < MaxRawCalls
    /\ \E left \in {IF zero THEN Zeros(block) ELSE raw_left} :
       \E right \in {IF zero THEN Zeros(block) ELSE raw_right} :
       \E input \in {RawInput(ctor.filter, raw_calls, short)} :
       \E r \in {RawTransform(ctor.filter, input, left, right)} :
           /\ raw_left' = r.left
           /\ raw_right' = r.right
           /\ raw_call' = [kind |-> IF r.ok THEN "Ok" ELSE "Err",
                           short |-> short, left |-> left, right |-> right,
                           input |-> input, after |-> r.input]
    /\ raw_calls' = raw_calls + 1
    /\ UNCHANGED <<rec, sample_rate, resample, clobbers, block, start, ctor, vsf,
                   streaming, output, supplied, call, out_log, ref, ref_log, jack>>

StreamCalls == \E count \in ChunkSizes(vsf.inner) : StreamCall(count)

RawCalls ==
    \E short \in {None} \cup (0..(channels(ctor.filter) - 1)), zero \in BOOLEAN :
        RawCall(short, zero)

Next == Construct \/ NewStreaming \/ StreamCalls \/ RawCalls

Spec == Init /\ [][Next]_vars

\* planning at the crate's own BLOCK_SIZE, over many HRIR lengths
PlanLayouts == {<<"FrontLeft", "FrontRight">>}

PlanFormats == {fm \in Formats : SampleFormatTryFrom(fm).ok}

InitPlan ==
    InitWith(Recordings(MaxPlanSamples, PlanLayouts, PlanFormats), BLOCK_SIZE, StartExp,
             {TRUE})

NextPlan == Construct

SpecPlan == InitPlan /\ [][NextPlan]_vars

\* the JACK client: main() builds the Filter around a constructed raw filter,
\* then the server calls process with the frames of its current buffer size
JackLayouts == {<<"FrontLeft", "FrontRight">>}

JackSizes == 1..(Pow2(JackBlockExp) + 1)

InitJack ==
    InitWith(Recordings(MaxHrirSamples, JackLayouts, PlanFormats), Pow2(JackBlockExp),
             ScaledStart, BOOLEAN)

JackStart ==
    /\ ctor.kind = "Ok"
    /\ ~jack.started
    /\ jack' = JackNew(ctor.filter)
    /\ UNCHANGED <<rec, sample_rate, resample, clobbers, block, start, ctor, vsf,
                   streaming, output, supplied, call, out_log, ref, ref_log,
                   raw_left, raw_right, raw_call, raw_calls>>

JackCallback(n_frames) ==
    /\ jack.started
    /\ ~jack.quit
    /\ jack.callbacks < MaxCallbacks
    /\ (n_frames # jack.buffer_size /\ ~SizeRefused(ctor.filter, n_frames))
       => jack.changes < MaxSizeChanges
    /\ jack' = JackProcess(ctor.filter, jack, n_frames)
    /\ UNCHANGED <<rec, sample_rate, resample, clobbers, block, start, ctor, vsf,
                   streaming, output, supplied, call, out_log, ref, ref_log,
                   raw_left, raw_right, raw_call, raw_calls>>

JackCallbacks == \E n_frames \in JackSizes : JackCallback(n_frames)

NextJack == Construct \/ JackStart \/ JackCallbacks

SpecJack == InitJack /\ [][NextJack]_vars

\* ================================================================== claims
StreamCalled == streaming /\ call.kind # "None"

F == vsf.inner

\* C1: once at least sample_latency() frames have been supplied (in chunks
\* of at most samples_required() frames), a call that supplies exactly
\* block_size frames succeeds and writes exactly one block of block_size
\* stereo frames to the caller's output.
C1_OneInOneOut ==
    (StreamCalled /\ call.pre_supplied >= sample_latency(F)
        /\ call.count = block_size(F))
    => /\ call.kind = "Ok"
       /\ call.wrote = block_size(F)
       /\ out_log # <<>>
       /\ out_log[Len(out_log)] = output

\* a block_size call in the steady state, after an earlier block was written
C1_Witness ==
    /\ StreamCalled
    /\ call.pre_supplied >= sample_latency(F)
    /\ call.count = block_size(F)
    /\ call.wrote = block_size(F)
    /\ Len(out_log) >= 2

\* C2: the output blocks written depend only on the concatenated input: the
\* filter fed in chunks (every chunk accepted) has written the same sequence
\* of blocks as the filter fed the same frames one per call.
C2_ChunkingIndependent ==
    (StreamCalled /\ call.kind = "Ok" /\ call.count > 0) => out_log = ref_log

\* C3: a call that leaves the fill cursor below samples_required() returns
\* success and leaves the caller's output untouched, and no output is
\* written before sample_latency() frames have been supplied in total (512
\* frames for an 8-frame HRIR in the crate's own build).
C3_FillPhase ==
    /\ (StreamCalled /\ call.kind = "Ok"
          /\ vsf.available_data < samples_required(F))
       => (call.wrote = 0 /\ output = call.pre_output)
    /\ (StreamCalled /\ call.wrote > 0) => supplied >= sample_latency(F)
    /\ (streaming /\ supplied < sample_latency(F))
       => (out_log = <<>> /\ output = Zeros(2 * block))
    /\ PlanFftLen(8, BLOCK_SIZE, StartExp) - BLOCK_SIZE = 512

\* the first block is written by a call that follows absorbed calls
C3_Witness ==
    /\ StreamCalled
    /\ call.wrote > 0
    /\ Len(out_log) = 1
    /\ call.pre.available_data > 0
    /\ call.pre_output = Zeros(2 * block)
    /\ supplied >= sample_latency(F)

\* C4: when a call overflows the window, exactly available + incoming -
\* capacity of the oldest samples are dropped from every channel's window
\* and the incoming samples directly follow the retained ones.
C4_DropOldest ==
    (StreamCalled /\ call.kind # "Panic"
        /\ call.pre.available_data + call.count > samples_required(F))
    => \A c \in 1..channels(F) :
         LET drop == call.pre.available_data + call.count - samples_required(F)
             incoming == [k \in 1..call.count |->
                            call.input[(k - 1) * channels(F) + (c - 1) + 1]]
         IN  call.appended[c]
               = SubSeq(call.pre.in_space[c], drop + 1, call.pre.available_data)
                 \o incoming

\* C5: a call that writes an output block leaves the fill cursor at
\* sample_latency(), the window slid forward by block_size.
C5_SlideAfterOutput ==
    (StreamCalled /\ call.wrote > 0)
    => /\ vsf.available_data = sample_latency(F)
       /\ \A c \in 1..channels(F) :
            SubSeq(vsf.in_space[c], 1, sample_latency(F))
              = SubSeq(call.appended[c], block_size(F) + 1, samples_required(F))

C7_NoPartialFailure ==
    /\ (raw_call.kind = "Err")
       => (raw_left = raw_call.left /\ raw_right = raw_call.right)
    /\ (StreamCalled /\ call.kind = "Err") => output = call.pre_output

Constructed == ctor.kind # "None"

RecMap == ChannelMapFromIter(rec.positions)

\* positions of the recording whose mirror is not in the recording
UnmirroredPositions ==
    {rec.positions[i] : i \in {k \in 1..Len(rec.positions) :
        \A m \in 1..Len(rec.positions) :
            rec.positions[m] # mirror_channel(rec.positions[k])}}

EarsAssigned ==
    ctor.kind = "Ok" =>
      LET cm == ctor.filter.channel_map
      IN  /\ Len(ctor.filter.ir) = 2 * cm.channels
          /\ \A i \in 0..(cm.channels - 1) :
               /\ ctor.filter.ir[i * 2 + 1] = i
               /\ ctor.filter.ir[i * 2 + 2] = find_mirror(cm, cm.map[i + 1])
               /\ ctor.filter.ir[i * 2 + 2] # None
               /\ cm.map[ctor.filter.ir[i * 2 + 2] + 1] = mirror_channel(cm.map[i + 1])

\* C8 as stated: slots i*2 and i*2+1 come from channel i and its mirror, and
\* a recording with an unmirrored position fails with the asymmetric-HRIR
\* error naming that position.
C8_EarAssignment ==
    Constructed =>
      /\ EarsAssigned
      /\ UnmirroredPositions # {}
         => /\ ctor.kind = "Err"
            /\ ctor.error = "AsymmetricHRIR"
            /\ ctor.position \in UnmirroredPositions

\* the construction reaches the ear assignment: it passed the resampling
\* check and the channel-count check
ReachesEarAssignment ==
    /\ ~(~resample /\ sample_rate # None)
    /\ Len(rec.positions) <= MAX_CHANNELS

\* C8 amended: slots i*2 and i*2+1 come from channel i and its mirror; a
\* recording with an unmirrored position never yields a filter, and when
\* construction reaches the ear assignment it fails with the asymmetric-HRIR
\* error naming the first unmirrored position.
C8_EarAssignmentAmended ==
    Constructed =>
      /\ EarsAssigned
      /\ UnmirroredPositions # {}
         => /\ ctor.kind # "Ok"
            /\ ctor.filter = NoFilter
            /\ ReachesEarAssignment
               => /\ ctor.kind = "Err"
                  /\ ctor.error = "AsymmetricHRIR"
                  /\ ctor.position \in UnmirroredPositions
                  /\ ctor.position = RecMap.map[FirstOf(Unmirrored(RecMap)) + 1]

\* a filter built from a left/right pair, and so with crossed right ears
C8_Witness ==
    /\ ctor.kind = "Ok"
    /\ channels(ctor.filter) = 2
    /\ ctor.filter.ir = <<0, 1, 1, 0>>

IsPowerOfTwo(n) == \E e \in 0..30 : Pow2(e) = n

\* C9: fft_len is the smallest power of two >= n + block_size + 1;
\* samples_required() is fft_len and sample_latency() is fft_len -
\* block_size; 1024 and 512 for n = 8 and block_size = 512.
C9_FftPlanning ==
    /\ ctor.kind = "Ok" =>
         LET f == ctor.filter
             goal == f.hrir_samples + block + 1
         IN  /\ IsPowerOfTwo(f.fft_len)
             /\ f.fft_len >= goal
             /\ f.fft_len \div 2 < goal
             /\ samples_required(f) = f.fft_len
             /\ sample_latency(f) = f.fft_len - block
             /\ (f.hrir_samples = 8 /\ block = 512)
                => (samples_required(f) = 1024 /\ sample_latency(f) = 512)

\* a filter planned for an HRIR so long that the plan is beyond 1024
C9_Witness ==
    /\ ctor.kind = "Ok"
    /\ ctor.filter.hrir_samples = 512
    /\ ctor.filter.fft_len = 2048

\* C10: a recording that is not 32-bit float fails with the
\* unsupported-format error carrying its encoding and bit depth, whatever
\* else is wrong with it.
C10_FormatRejectedFirst ==
    (Constructed /\ ~SampleFormatTryFrom(rec.fmt).ok)
    => /\ ctor.kind = "Err"
       /\ ctor.error = "UnsupportedFormat"
       /\ ctor.encoding = rec.fmt.common_format
       /\ ctor.bits = rec.fmt.bits_per_sample

\* C11: with no resampler in the build and a target rate requested,
\* construction returns the resampling-unavailable error as a value (it
\* does not panic) and produces no filter.
C11_ResamplingUnavailable ==
    (Constructed /\ ~resample /\ sample_rate # None)
    => /\ ctor.kind = "Err"
       /\ ctor.filter = NoFilter

\* the construction built its ChannelMap (lib.rs 218)
MapBuilt == Constructed /\ ReachesEarAssignment /\ RecMap.ok

\* indices of the map whose position has its mirror in the map
Mirrored(cm) ==
    {i \in 0..(cm.channels - 1) : find_mirror(cm, cm.map[i + 1]) # None}

\* the first index of the map holding the position of index i
FirstHolding(cm, i) ==
    CHOOSE k \in 0..i :
        /\ cm.map[k + 1] = cm.map[i + 1]
        /\ \A m \in 0..(k - 1) : cm.map[m + 1] # cm.map[i + 1]

\* C12 as stated: in every ChannelMap built by from_iter (duplicates
\* allowed), for every index i whose position has its mirror present, the
\* mirror of the mirror's position is found at index i.
C12_MirrorRoundTrip ==
    MapBuilt =>
      \A i \in Mirrored(RecMap) :
         LET j == find_mirror(RecMap, RecMap.map[i + 1])
         IN  find_mirror(RecMap, RecMap.map[j + 1]) = i

\* C12 amended: the mirror table is an involution fixing the centre
\* positions; for every index i whose position p has its mirror present,
\* j = find_mirror(p) holds mirror(p) and find_mirror(position(j)) is the
\* first index holding p, which is i when p occurs at no earlier index.
C12_MirrorRoundTripAmended ==
    /\ \A p \in ChannelMask : mirror_channel(mirror_channel(p)) = p
    /\ \A p \in {"DirectOut", "FrontCenter", "LowFrequency", "BackCenter",
                  "TopCenter", "TopFrontCenter", "TopBackCenter"} :
          mirror_channel(p) = p
    /\ MapBuilt =>
         \A i \in Mirrored(RecMap) :
            LET p == RecMap.map[i + 1]
                j == find_mirror(RecMap, p)
                back == find_mirror(RecMap, RecMap.map[j + 1])
            IN  /\ j \in 0..(RecMap.channels - 1)
                /\ RecMap.map[j + 1] = mirror_channel(p)
                /\ back = FirstHolding(RecMap, i)
                /\ (\A m \in 0..(i - 1) : RecMap.map[m + 1] # p) => back = i

\* a map built from a right/left pair: each index is the other's mirror
C12_Witness ==
    /\ MapBuilt
    /\ ctor.kind = "Ok"
    /\ ctor.filter.channel_map.map[1] = "FrontRight"
    /\ ctor.filter.channel_map.map[2] = "FrontLeft"
    /\ find_mirror(ctor.filter.channel_map, "FrontRight") = 1
    /\ find_mirror(ctor.filter.channel_map, "FrontLeft") = 0

\* C13: after the raw transform returns, every input window of fft_len
\* samples holds the samples it held before the call (only the outputs and
\* the scratch buffers change), so the history in the streaming filter's
\* windows is intact for the next frame.
C13_InputsPreserved ==
    /\ raw_call.kind = "Ok" => raw_call.after = raw_call.input
    /\ (StreamCalled /\ call.wrote > 0) => vsf.in_space = call.appended

\* callbacks per output block at the host's buffer size
CallbacksPerBlock == block_size(ctor.filter) \div jack.buffer_size

\* C14: with a host buffer size b dividing block_size, input_offset + b
\* never exceeds samples_required() after any callbacks and accepted size
\* changes; once the window has filled the raw transform runs exactly once
\* every block_size/b callbacks, and the k-th callback of a cycle (k = 0 the
\* transform callback) writes samples [k*b, (k+1)*b) of the cycle's output
\* block to both output ports.
C14_JackAdapter ==
    jack.started =>
      /\ ~jack.panicked
      /\ block_size(ctor.filter) % jack.buffer_size = 0
      /\ jack.buffer_size <= block_size(ctor.filter)
      /\ jack.input_offset + jack.buffer_size <= samples_required(ctor.filter)
      /\ jack.k # None =>
           /\ jack.k \in 0..(CallbacksPerBlock - 1)
           /\ jack.transformed <=> jack.k = 0
           /\ (jack.transformed /\ jack.prev_k # None)
              => jack.prev_k = CallbacksPerBlock - 1
           /\ ~jack.transformed => jack.k = jack.prev_k + 1
           /\ jack.ports =
                <<SubSeq(jack.last_block[1], jack.k * jack.buffer_size + 1,
                         (jack.k + 1) * jack.buffer_size),
                  SubSeq(jack.last_block[2], jack.k * jack.buffer_size + 1,
                         (jack.k + 1) * jack.buffer_size)>>

\* after a size change to a quarter of the block, the last callback of a
\* cycle hands out the last quarter, which differs from the first
C14_Witness ==
    /\ jack.started
    /\ jack.changes > 0
    /\ CallbacksPerBlock = 4
    /\ jack.k = 3
    /\ jack.ports[1] # SubSeq(jack.last_block[1], 1, jack.buffer_size)
    /\ jack.ports[2] # SubSeq(jack.last_block[2], 1, jack.buffer_size)

====
